---- MODULE Spec2Model ----
(***************************************************************************)
(* The reftable stack manager of stack.go: a manifest file naming the live *)
(* tables, a directory of table files, the manifest lock and the per-table *)
(* locks, and any number of processes, each with its own in-memory Stack   *)
(* on the same manifest and directory.  Every file-system call of add,    *)
(* compactRange and reload is one step of the process that makes it.       *)
(***************************************************************************)
EXTENDS FiniteSets, Integers, Sequences, TLC

\* ---------------------------------------------------------------- bounds
Procs == {1, 2}          \* the processes sharing one manifest and directory
MaxCalls == 3            \* top-level calls made, over all processes
MaxCallsSingle == 4      \* top-level calls made when one process runs alone
MaxFaults == 1           \* injected file-system failures in one run
MaxInit == 2             \* tables already in the stack when the processes open it
MaxInitWide == 4         \* the same, for the runs that start from a taller stack
MaxCallsWide == 2        \* top-level calls made in the runs from the taller stack
MaxInitRecords == 3      \* tables in the stack whose records are drawn freely
MaxCallsRecords == 1     \* top-level calls made in the runs over those stacks
MaxInitSizes == 5        \* tables in the stacks whose sizes are drawn freely
MaxCallsSizes == 1       \* top-level calls made in the runs over those stacks
MaxLog == 24             \* the largest floor-log2 of a sum of table sizes

\* ------------------------------------------------------- program constants
Overhead == 91           \* tableSizesForCompaction subtracts it from the size
MinSegLog == 64          \* the starting log of suggestCompactionSegment's minSeg
NameWidth == 12          \* %012x

\* ------------------------------------------------------------ pure helpers
Last(s) == s[Len(s)]
Names(st) == [i \in 1..Len(st) |-> st[i].name]
Without(f, S) == [n \in (DOMAIN f) \ S |-> f[n]]
With(f, k, v) == [n \in (DOMAIN f) \cup {k} |-> IF n = k THEN v ELSE f[n]]
Range(s) == {s[i] : i \in 1..Len(s)}

HexDigit(d) ==
    CASE d = 0 -> "0" [] d = 1 -> "1" [] d = 2 -> "2" [] d = 3 -> "3"
      [] d = 4 -> "4" [] d = 5 -> "5" [] d = 6 -> "6" [] d = 7 -> "7"
      [] d = 8 -> "8" [] d = 9 -> "9" [] d = 10 -> "a" [] d = 11 -> "b"
      [] d = 12 -> "c" [] d = 13 -> "d" [] d = 14 -> "e" [] OTHER -> "f"

RECURSIVE Hex(_)
Hex(n) == IF n < 16 THEN HexDigit(n) ELSE Hex(n \div 16) \o HexDigit(n % 16)

RECURSIVE PadZero(_, _)
PadZero(s, w) == IF Len(s) >= w THEN s ELSE PadZero("0" \o s, w)

\* fmt.Sprintf("%012x-%012x", min, max)
formatName(min, max) ==
    PadZero(Hex(min), NameWidth) \o "-" \o PadZero(Hex(max), NameWidth)

\* A file's content is the sequence of its lines: strings.Join(names, "\n")
\* of no names is the empty string, which is one empty line.
Join(names) == IF names = <<>> THEN <<"">> ELSE names

NonEmpty(l) == l # ""

\* readNames: the non-empty lines of the manifest; a missing manifest (no
\* lines at all) reads as no names.
readNames(content) == SelectSeq(content, NonEmpty)

NextUpdateIndex(st) == IF Len(st) > 0 THEN Last(st).max + 1 ELSE 1

UpToDate(st, content) ==
    LET names == readNames(content)
    IN  /\ Len(names) = Len(st)
        /\ \A i \in 1..Len(st) : st[i].name = names[i]

\* ------------------------------------------------------------- the records
\* The reference names the tables speak of.
Refs == {"main", "topic"}

\* A reference record: its key, its update index (which stands for the value
\* it sets), and whether it is a deletion.
RefRecord(name, idx, del) == [name |-> name, idx |-> idx, del |-> del]

LogRecord(name, idx) == [name |-> name, idx |-> idx]

isDeletion(rec) == rec.del

\* What a table written at update index idx holds when its writer sets
\* "main" and logs it.
PlainRefs(idx) == {RefRecord("main", idx, FALSE)}

PlainLogs(idx) == {LogRecord("main", idx)}

\* The reference records a Merged view over tabs (oldest first) yields: for
\* each key, the record of the newest table that holds the key.
MergedRefs(tabs) ==
    {r \in UNION {tabs[i].refs : i \in 1..Len(tabs)} :
        \E i \in 1..Len(tabs) :
            /\ r \in tabs[i].refs
            /\ \A j \in (i + 1)..Len(tabs) :
                  \A q \in tabs[j].refs : q.name # r.name}

\* The log records it yields: the key of a log record is its name and its
\* update index.
MergedLogs(tabs) == UNION {tabs[i].logs : i \in 1..Len(tabs)}

\* A merge that drops the deletions whatever first is.
writeCompactElidingAll(st, first, last) ==
    LET subtabs == SubSeq(st, first + 1, last + 1)
    IN  [refs |-> {rec \in MergedRefs(subtabs) : ~isDeletion(rec)},
         logs |-> MergedLogs(subtabs)]

\* A merge that keeps the deletions whatever first is.
writeCompactElidingNone(st, first, last) ==
    LET subtabs == SubSeq(st, first + 1, last + 1)
    IN  [refs |-> MergedRefs(subtabs), logs |-> MergedLogs(subtabs)]

\* writeCompact: every record of the Merged view over st.stack[first..last]
\* is added to the Writer, but for the deletions when first == 0.
writeCompact(st, first, last) ==
    LET subtabs == SubSeq(st, first + 1, last + 1)
    IN  [refs |-> {rec \in MergedRefs(subtabs) : ~(first = 0 /\ isDeletion(rec))},
         logs |-> MergedLogs(subtabs)]

\* The Merged projection of a stack: the live value of every reference.
Projection(st) ==
    {[name |-> r.name, value |-> r.idx] : r \in {q \in MergedRefs(st) : ~q.del}}

\* ----------------------------------------------------- compaction heuristic
RECURSIVE log2loop(_, _)
log2loop(sz, l) == IF sz > 0 THEN log2loop(sz \div 2, l + 1) ELSE l - 1

log2(sz) == log2loop(sz, 0)

tableSizesForCompaction(st) == [i \in 1..Len(st) |-> st[i].size - Overhead]

ZeroSegment == [start |-> 0, end |-> 0, log |-> 0, bytes |-> 0]

SegSize(sg) == sg.end - sg.start

\* Indices are the code's: 0-based, end exclusive; sizes[i + 1] is sizes[i].
RECURSIVE segLoop(_, _, _, _)
segLoop(sizes, i, cur, res) ==
    IF i >= Len(sizes) THEN Append(res, cur)
    ELSE LET sz == sizes[i + 1]
             l == log2(sz)
             flush == cur.log # l /\ cur.bytes > 0
             res1 == IF flush THEN Append(res, cur) ELSE res
             cur1 == IF flush THEN [ZeroSegment EXCEPT !.start = i] ELSE cur
             cur2 == [cur1 EXCEPT !.log = l, !.end = i + 1, !.bytes = @ + sz]
         IN  segLoop(sizes, i + 1, cur2, res1)

sizesToSegments(sizes) == segLoop(sizes, 0, ZeroSegment, <<>>)

\* A search that takes the last of the segments of the smallest log.
RECURSIVE minSegLoopLastOnTies(_, _, _)
minSegLoopLastOnTies(segs, k, minSeg) ==
    IF k > Len(segs) THEN minSeg
    ELSE IF SegSize(segs[k]) = 1 THEN minSegLoopLastOnTies(segs, k + 1, minSeg)
    ELSE IF segs[k].log <= minSeg.log THEN minSegLoopLastOnTies(segs, k + 1, segs[k])
    ELSE minSegLoopLastOnTies(segs, k + 1, minSeg)

RECURSIVE minSegLoop(_, _, _)
minSegLoop(segs, k, minSeg) ==
    IF k > Len(segs) THEN minSeg
    ELSE IF SegSize(segs[k]) = 1 THEN minSegLoop(segs, k + 1, minSeg)
    ELSE IF segs[k].log < minSeg.log THEN minSegLoop(segs, k + 1, segs[k])
    ELSE minSegLoop(segs, k + 1, minSeg)

RECURSIVE extendLeft(_, _)
extendLeft(sizes, sg) ==
    IF sg.start > 0
    THEN LET prev == sg.start - 1
         IN  IF log2(sg.bytes) < log2(sizes[prev + 1]) THEN sg
             ELSE extendLeft(sizes,
                     [sg EXCEPT !.start = prev, !.bytes = @ + sizes[prev + 1]])
    ELSE sg

NoSegment == [start |-> 0, end |-> 0, log |-> -1, bytes |-> 0]

\* nil is NoSegment.
suggestCompactionSegment(sizes) ==
    LET minSeg == minSegLoop(sizesToSegments(sizes), 1,
                             [ZeroSegment EXCEPT !.log = MinSegLog])
    IN  IF SegSize(minSeg) = 0 THEN NoSegment ELSE extendLeft(sizes, minSeg)

\* -------------------------------------------------------------- the state
VARIABLES
    manifest,   \* the manifest file: its lines (<<>> when the file is missing)
    lock,       \* manifest_path + ".lock": who created the file, and its lines
    files,      \* the table files under their final names: name -> content
    tlocks,     \* the per-table lock files: path -> the process that created it
    temps,      \* temporary table files in the directory, per creating process
    pc,         \* where each process is in its current call
    stack,      \* st.stack of each process: its Readers, in order
    closed,     \* the Readers in st.stack of each process that were closed
    merged,     \* st.merged of each process: the Readers it was built over
    stats,      \* st.Stats of each process
    loc,        \* the local variables of each process's current call
    ret,        \* what each process's last top-level call returned
    calls,      \* top-level calls that may still be started
    faults,     \* file-system failures that may still be injected
    todo,       \* the calls each process goes on to make
    pubs,       \* history: the tables Add published, in publication order
    mhist,      \* history: every name list installed as the manifest, in order
    run         \* history: whether the calls so far are Adds, then CompactAll

vars == <<manifest, lock, files, tlocks, temps, pc, stack, closed, merged, stats,
          loc, ret, calls, faults, todo, pubs, mhist, run>>

NoLock == [owner |-> 0, content |-> <<>>]
NoTable == [min |-> 0, max |-> 0, size |-> 0, wr |-> <<>>, refs |-> {}, logs |-> {}]
NoRet == [op |-> "none", ok |-> TRUE, err |-> "nil"]

LocInit ==
    [op |-> "none", call |-> 0, names |-> <<>>, next |-> 0, first |-> 0,
     last |-> 0, held |-> <<>>, lockSet |-> FALSE, deferRm |-> FALSE,
     tmp |-> NoTable, dest |-> "", ok |-> TRUE, err |-> "nil",
     viaStats |-> FALSE, rlret |-> "none", installed |-> 0, mine |-> FALSE,
     fault |-> "none", backoff |-> FALSE, next0 |-> 0,
     tmpFile |-> FALSE, contended |-> "none", lockFailure |-> "none",
     pre |-> [manifest |-> <<>>, files |-> <<>>, view |-> {}]]

\* The byte sizes a Writer's output may have (header and footer are 92 bytes).
Sizes == {Overhead + 1, Overhead + 4}

LockPath(name) == name \o ".lock"

TableAs(name, tab) ==
    [name |-> name, min |-> tab.min, max |-> tab.max, size |-> tab.size,
     wr |-> tab.wr, refs |-> tab.refs, logs |-> tab.logs]

\* NewReader over the table file `name`: its limits and size are the file's.
OpenReader(name, dir) ==
    TableAs(name, dir[name])

\* reloadOnce's map from name to open Reader (a later Reader of the same
\* name replaces an earlier one).
CurMap(st) ==
    [n \in Range(Names(st)) |->
        st[CHOOSE i \in 1..Len(st) :
              /\ st[i].name = n
              /\ \A j \in 1..Len(st) : st[j].name = n => j <= i]]

RECURSIVE reloadLoop(_, _, _, _, _)
reloadLoop(names, k, cur, newTables, dir) ==
    IF k > Len(names) THEN [ok |-> TRUE, tables |-> newTables]
    ELSE IF names[k] \in DOMAIN cur
    THEN reloadLoop(names, k + 1, Without(cur, {names[k]}),
                    Append(newTables, cur[names[k]]), dir)
    ELSE IF names[k] \notin DOMAIN dir
    THEN [ok |-> FALSE, tables |-> newTables]
    ELSE reloadLoop(names, k + 1, cur,
                    Append(newTables, OpenReader(names[k], dir)), dir)

reloadOnce(st, names, dir) == reloadLoop(names, 1, CurMap(st), <<>>, dir)

\* reloadOnce's deferred function on a failure: t.Close() for every t of
\* newTables. A Reader of newTables that has the name of a Reader of st.stack
\* was taken from cur, and is the one st.stack holds.
reusedBy(st, newTables) == Range(Names(newTables)) \cap Range(Names(st))

\* The outcomes of a file-system call that may fail.
IOChoices(kinds) == {"ok"} \cup (IF faults > 0 THEN kinds ELSE {})

Spend(out) == faults' = IF out = "ok" THEN faults ELSE faults - 1

\* ------------------------------------------------- history of the calls
RunOther == [phase |-> "other", adds |-> 0, unit |-> TRUE]

RunStart(op) ==
    IF run.phase = "adds" /\ op = "Add" THEN run
    ELSE IF run.phase = "adds" /\ op = "CompactAll"
    THEN [run EXCEPT !.phase = "compactall"]
    ELSE RunOther

RunReturn(op, err) ==
    IF run.phase = "adds" /\ op = "Add" /\ err = "nil"
    THEN [run EXCEPT !.adds = @ + 1]
    ELSE IF run.phase = "compactall" /\ op = "CompactAll" /\ err = "nil"
    THEN [run EXCEPT !.phase = "done"]
    ELSE RunOther

\* ------------------------------------------------------ returning a value
\* The top-level call of p returns.
Return(p, l, ok, err) ==
    /\ pc' = [pc EXCEPT ![p] = "idle"]
    /\ loc' = [loc EXCEPT ![p] = LocInit]
    /\ ret' = [ret EXCEPT ![p] = [op |-> l.op, ok |-> ok, err |-> err]]
    /\ run' = RunReturn(l.op, err)

\* compactRange returns (ok, err) to compactRangeStats, AutoCompact,
\* CompactAll or the caller; s is the process's Stats at that point.
CrReturn(p, l, ok, err, s) ==
    /\ stats' = [stats EXCEPT ![p] =
                    IF l.viaStats /\ ~ok THEN [s EXCEPT !.failures = @ + 1]
                    ELSE s]
    /\ Return(p, l, IF l.op = "compactRange" THEN ok ELSE err = "nil", err)

\* The locals of a call whose callee has returned.
Fresh(l) ==
    [LocInit EXCEPT !.op = l.op, !.call = l.call, !.next0 = l.next0,
                    !.installed = l.installed, !.fault = l.fault,
                    !.tmpFile = l.tmpFile, !.pre = l.pre,
                    !.lockFailure = l.lockFailure]

\* An Add that runs AutoCompact whatever error add returned.
AddReturnCompacting(p, l, err) ==
    IF err = "LockFailure"
    THEN /\ pc' = [pc EXCEPT ![p] = "rl_read"]
         /\ loc' = [loc EXCEPT ![p] = [Fresh(l) EXCEPT !.err = err,
                                                       !.rlret = "Add_fail"]]
         /\ UNCHANGED <<ret, run>>
    ELSE /\ pc' = [pc EXCEPT ![p] = "ac_begin"]
         /\ loc' = [loc EXCEPT ![p] = Fresh(l)]
         /\ UNCHANGED <<ret, run>>

\* add returned err to Add: a LockFailure is followed by st.reload(), any
\* other error is returned, and success is followed by st.AutoCompact().
AddReturn(p, l, err) ==
    IF err = "LockFailure"
    THEN /\ pc' = [pc EXCEPT ![p] = "rl_read"]
         /\ loc' = [loc EXCEPT ![p] = [Fresh(l) EXCEPT !.err = err,
                                                       !.rlret = "Add_fail"]]
         /\ UNCHANGED <<ret, run>>
    ELSE IF err # "nil" THEN Return(p, l, FALSE, err)
    ELSE /\ pc' = [pc EXCEPT ![p] = "ac_begin"]
         /\ loc' = [loc EXCEPT ![p] = Fresh(l)]
         /\ UNCHANGED <<ret, run>>

\* reload returned err to whoever called it.
ReloadReturn(p, l, err) ==
    CASE l.rlret = "add" ->
            /\ pc' = [pc EXCEPT ![p] = "add_defer1"]
            /\ loc' = [loc EXCEPT ![p] = [l EXCEPT !.err = err]]
            /\ UNCHANGED <<ret, run>>
      [] l.rlret = "cr" ->
            /\ pc' = [pc EXCEPT ![p] = "cr_defer_tl"]
            /\ loc' = [loc EXCEPT ![p] = [l EXCEPT !.ok = TRUE, !.err = err]]
            /\ UNCHANGED <<ret, run>>
      [] l.rlret = "Add_fail" -> Return(p, l, FALSE, "LockFailure")
      [] OTHER -> Return(p, l, err = "nil", err)

\* ---------------------------------------------------------- starting calls
\* A process that may make any call next.
AnyCall == "any"

Begin(p, op, l) ==
    /\ pc[p] = "idle"
    /\ calls > 0
    /\ calls' = calls - 1
    /\ todo[p] # <<>>
    /\ Head(todo[p]) \in {op, AnyCall}
    /\ todo' = IF Head(todo[p]) = AnyCall THEN todo
               ELSE [todo EXCEPT ![p] = Tail(@)]
    /\ loc' = [loc EXCEPT ![p] =
                  [l EXCEPT !.op = op, !.call = calls,
                            !.next0 = NextUpdateIndex(stack[p]),
                            !.pre = [manifest |-> manifest, files |-> files,
                                     view |-> Projection(stack[p])]]]
    /\ ret' = [ret EXCEPT ![p] = NoRet]
    /\ run' = RunStart(op)
    /\ UNCHANGED <<manifest, lock, files, tlocks, temps, stack, closed, merged, stats,
                   faults, pubs, mhist>>

StartAdd(p) ==
    /\ Begin(p, "Add", LocInit)
    /\ pc' = [pc EXCEPT ![p] = "add_open"]

StartCompactAll(p) ==
    /\ Begin(p, "CompactAll",
             [LocInit EXCEPT !.first = 0, !.last = Len(stack[p]) - 1])
    /\ pc' = [pc EXCEPT ![p] = "cr_open"]

StartCompactRange(p, first, last) ==
    /\ Begin(p, "compactRange", [LocInit EXCEPT !.first = first, !.last = last])
    /\ pc' = [pc EXCEPT ![p] = "cr_open"]

StartAutoCompact(p) ==
    /\ Begin(p, "AutoCompact", LocInit)
    /\ pc' = [pc EXCEPT ![p] = "ac_begin"]

StartReload(p) ==
    /\ Begin(p, "reload", [LocInit EXCEPT !.rlret = "top"])
    /\ pc' = [pc EXCEPT ![p] = "rl_read"]

\* ------------------------------------------------------------------ reload
\* reload: names, err := st.readNames()
RlRead(p) ==
    /\ pc[p] = "rl_read"
    /\ pc' = [pc EXCEPT ![p] = "rl_once"]
    /\ loc' = [loc EXCEPT ![p].names = readNames(manifest)]
    /\ UNCHANGED <<manifest, lock, files, tlocks, temps, stack, closed, merged, stats,
                   ret, calls, faults, todo, pubs, mhist, run>>

\* reload: err = st.reloadOnce(names); on success the loop breaks and the
\* merged view is rebuilt over st.stack.
RlOnce(p) ==
    /\ pc[p] = "rl_once"
    /\ LET r == reloadOnce(stack[p], loc[p].names, files)
       IN  IF r.ok
           THEN /\ stack' = [stack EXCEPT ![p] = r.tables]
                /\ closed' = [closed EXCEPT ![p] = @ \cap Range(Names(r.tables))]
                /\ merged' = [merged EXCEPT ![p] = r.tables]
                /\ ReloadReturn(p, loc[p], "nil")
           ELSE /\ pc' = [pc EXCEPT ![p] = "rl_reread"]
                /\ closed' = [closed EXCEPT ![p] = @ \cup reusedBy(stack[p], r.tables)]
                /\ UNCHANGED <<stack, merged, loc, ret, run>>
    /\ UNCHANGED <<manifest, lock, files, tlocks, temps, stats, calls, faults,
                   todo, pubs, mhist>>

\* reload after a file-not-found: after, err := st.readNames(); unchanged
\* names return os.ErrNotExist; otherwise the loop condition is evaluated
\* again, and once the deadline has passed the loop ends and the code after
\* it builds the merged view over the stack as it is and returns nil.
RlReread(p) ==
    /\ pc[p] = "rl_reread"
    /\ IF readNames(manifest) = loc[p].names
       THEN /\ ReloadReturn(p, loc[p], "NotExist")
            /\ UNCHANGED merged
       ELSE \E expired \in BOOLEAN :
              IF expired
              THEN /\ merged' = [merged EXCEPT ![p] = stack[p]]
                   /\ ReloadReturn(p, loc[p], "nil")
              ELSE /\ pc' = [pc EXCEPT ![p] = "rl_read"]
                   /\ UNCHANGED <<merged, loc, ret, run>>
    /\ UNCHANGED <<manifest, lock, files, tlocks, temps, stack, closed, stats, calls,
                   faults, todo, pubs, mhist>>

\* --------------------------------------------------------------------- add
\* add: os.OpenFile(lockFile, O_EXCL|O_CREATE|O_WRONLY)
AddOpen(p) ==
    /\ pc[p] = "add_open"
    /\ IF lock.owner # 0
       THEN /\ AddReturn(p, [loc[p] EXCEPT !.lockFailure = "held"], "LockFailure")
            /\ UNCHANGED lock
       ELSE /\ lock' = [owner |-> p, content |-> Join(<<>>)]
            /\ pc' = [pc EXCEPT ![p] = "add_uptodate"]
            /\ loc' = [loc EXCEPT ![p].lockSet = TRUE, ![p].mine = TRUE]
            /\ UNCHANGED <<ret, run>>
    /\ UNCHANGED <<manifest, files, tlocks, temps, stack, closed, merged, stats, calls,
                   faults, todo, pubs, mhist>>

\* add: st.UpToDate(), then the names of st.stack and st.NextUpdateIndex()
AddUpToDate(p) ==
    /\ pc[p] = "add_uptodate"
    /\ IF UpToDate(stack[p], manifest)
       THEN /\ pc' = [pc EXCEPT ![p] = "add_write"]
            /\ loc' = [loc EXCEPT ![p].names = Names(stack[p]),
                                  ![p].next = NextUpdateIndex(stack[p])]
       ELSE /\ pc' = [pc EXCEPT ![p] = "add_defer2"]
            /\ loc' = [loc EXCEPT ![p].err = "LockFailure",
                                  ![p].lockFailure = "stale"]
    /\ UNCHANGED <<manifest, lock, files, tlocks, temps, stack, closed, merged, stats,
                   ret, calls, faults, todo, pubs, mhist, run>>

\* add: if wr.minUpdateIndex < next { return ErrLockFailure }
Stale(min, next) == min < next

\* What a write callback may do: fail, or set the Writer's limits (a
\* callback that never sets them leaves min = 0) and write a table.
Callbacks(next) ==
    {[err |-> TRUE, min |-> 0, max |-> 0, size |-> 0]} \cup
    {[err |-> FALSE, min |-> lim[1], max |-> lim[2], size |-> sz] :
        lim \in {<<0, 0>>, <<next, next>>, <<next + 1, next + 2>>},
        sz \in Sizes}

\* add: ioutil.TempFile, defer os.Remove(f.Name()), NewWriter, write(wr),
\* wr.Close(), tab.Close(), the check of wr.minUpdateIndex, and
\* names = append(names, fn + ".ref").  f is the lock file.
AddWrite(p) ==
    /\ pc[p] = "add_write"
    /\ temps' = [temps EXCEPT ![p] = @ + 1]
    /\ \E cb \in Callbacks(loc[p].next) :
         LET l == [loc[p] EXCEPT !.deferRm = TRUE, !.tmpFile = TRUE]
             fn == formatName(l.next, l.next)
         IN  IF cb.err
             THEN /\ pc' = [pc EXCEPT ![p] = "add_defer1"]
                  /\ loc' = [loc EXCEPT ![p] = [l EXCEPT !.err = "Callback"]]
                  /\ UNCHANGED run
             ELSE IF Stale(cb.min, l.next)
             THEN /\ pc' = [pc EXCEPT ![p] = "add_defer1"]
                  /\ loc' = [loc EXCEPT ![p] = [l EXCEPT !.err = "LockFailure",
                                                        !.lockFailure = "range"]]
                  /\ UNCHANGED run
             ELSE /\ pc' = [pc EXCEPT ![p] = "add_rename"]
                  /\ loc' = [loc EXCEPT ![p] =
                        [l EXCEPT !.tmp = [min |-> cb.min, max |-> cb.max,
                                           size |-> cb.size,
                                           wr |-> <<p, l.call, "add">>,
                                           refs |-> PlainRefs(cb.min),
                                           logs |-> PlainLogs(cb.min)],
                                  !.dest = fn \o ".ref",
                                  !.names = Append(l.names, fn \o ".ref")]]
                  /\ run' = IF run.phase = "other" \/ <<cb.min, cb.max>> = <<l.next, l.next>>
                            THEN run ELSE [run EXCEPT !.unit = FALSE]
    /\ UNCHANGED <<manifest, lock, files, tlocks, stack, closed, merged, stats, ret,
                   calls, faults, todo, pubs, mhist>>

\* add: os.Rename(tab.Name(), dest)
AddRename(p) ==
    /\ pc[p] = "add_rename"
    /\ files' = With(files, loc[p].dest, loc[p].tmp)
    /\ temps' = [temps EXCEPT ![p] = @ - 1]
    /\ pc' = [pc EXCEPT ![p] = "add_wlock"]
    /\ loc' = [loc EXCEPT ![p].tmpFile = FALSE]
    /\ UNCHANGED <<manifest, lock, tlocks, stack, closed, merged, stats, ret,
                   calls, faults, todo, pubs, mhist, run>>

\* A write through the descriptor p opened reaches the lock file only while
\* the file at the lock path is still the one p created.
WriteLock(p, names) ==
    IF lock.owner = p THEN [lock EXCEPT !.content = Join(names)] ELSE lock

\* add: f.Write(names joined), f.Close(); on an error os.Remove(dest)
AddWriteLock(p) ==
    /\ pc[p] = "add_wlock"
    /\ \E out \in IOChoices({"write", "close"}) :
         /\ Spend(out)
         /\ lock' = IF out = "write" THEN lock ELSE WriteLock(p, loc[p].names)
         /\ IF out = "ok"
            THEN /\ pc' = [pc EXCEPT ![p] = "add_mv"]
                 /\ UNCHANGED <<files, loc, run>>
            ELSE /\ files' = Without(files, {loc[p].dest})
                 /\ pc' = [pc EXCEPT ![p] = "add_defer1"]
                 /\ loc' = [loc EXCEPT ![p].err = "IO", ![p].fault = out]
                 /\ run' = RunOther
    /\ UNCHANGED <<manifest, tlocks, temps, stack, closed, merged, stats, ret, calls,
                   todo, pubs, mhist>>

\* add: os.Rename(lockFile, st.listFile); on an error os.Remove(dest);
\* on success lockFile = "" and st.reload() gives the return value.
AddMv(p) ==
    /\ pc[p] = "add_mv"
    /\ \E out \in IOChoices({"rename"}) :
         /\ Spend(out)
         /\ IF out = "ok" /\ lock.owner # 0
            THEN /\ manifest' = lock.content
                 /\ lock' = NoLock
                 /\ mhist' = Append(mhist, readNames(lock.content))
                 /\ pubs' = IF lock.owner = p
                            THEN Append(pubs, TableAs(loc[p].dest, loc[p].tmp))
                            ELSE pubs
                 /\ pc' = [pc EXCEPT ![p] = "rl_read"]
                 /\ loc' = [loc EXCEPT ![p].lockSet = FALSE,
                                       ![p].mine = FALSE,
                                       ![p].rlret = "add",
                                       ![p].installed = Len(mhist) + 1]
                 /\ UNCHANGED <<files, run>>
            ELSE /\ files' = Without(files, {loc[p].dest})
                 /\ pc' = [pc EXCEPT ![p] = "add_defer1"]
                 /\ loc' = [loc EXCEPT
                        ![p].err = IF out = "ok" THEN "NotExist" ELSE "IO",
                        ![p].mine = IF out = "ok" THEN FALSE ELSE @,
                        ![p].fault = IF out = "ok" THEN @ ELSE out]
                 /\ run' = IF out = "ok" THEN run ELSE RunOther
                 /\ UNCHANGED <<manifest, lock, pubs, mhist>>
    /\ UNCHANGED <<tlocks, temps, stack, closed, merged, stats, ret, calls, todo>>

\* add's last-registered deferred call: os.Remove(f.Name()), where f is the
\* lock file, whose path was taken when the defer statement ran.
AddDefer1(p) ==
    /\ pc[p] = "add_defer1"
    /\ lock' = NoLock
    /\ IF loc[p].lockSet
       THEN /\ pc' = [pc EXCEPT ![p] = "add_defer2"]
            /\ loc' = [loc EXCEPT ![p].mine = FALSE]
            /\ UNCHANGED <<ret, run>>
       ELSE AddReturn(p, loc[p], loc[p].err)
    /\ UNCHANGED <<manifest, files, tlocks, temps, stack, closed, merged, stats, calls,
                   faults, todo, pubs, mhist>>

\* add's deferred func: if lockFile != "" { os.Remove(lockFile) }, then
\* Add's handling of add's error.
AddDefer2(p) ==
    /\ pc[p] = "add_defer2"
    /\ lock' = NoLock
    /\ AddReturn(p, [loc[p] EXCEPT !.mine = FALSE], loc[p].err)
    /\ UNCHANGED <<manifest, files, tlocks, temps, stack, closed, merged, stats, calls,
                   faults, todo, pubs, mhist>>

\* ------------------------------------------------------------- AutoCompact
AutoCompact(p) ==
    /\ pc[p] = "ac_begin"
    /\ LET seg == suggestCompactionSegment(tableSizesForCompaction(stack[p]))
       IN  IF seg = NoSegment
           THEN Return(p, loc[p], TRUE, "nil")
           ELSE /\ pc' = [pc EXCEPT ![p] = "cr_open"]
                /\ loc' = [loc EXCEPT ![p].first = seg.start,
                                      ![p].last = seg.end - 1,
                                      ![p].viaStats = TRUE]
                /\ UNCHANGED <<ret, run>>
    /\ UNCHANGED <<manifest, lock, files, tlocks, temps, stack, closed, merged, stats,
                   calls, faults, todo, pubs, mhist>>

\* ------------------------------------------------------------ compactRange
\* compactRange: the first >= last check, st.Stats.Attempts++, and the
\* exclusive create of the manifest lock.
CrOpen(p) ==
    /\ pc[p] = "cr_open"
    /\ LET l == loc[p]
           s == [stats[p] EXCEPT !.attempts = @ + 1]
       IN  IF l.first >= l.last
           THEN /\ CrReturn(p, l, TRUE, "nil", stats[p])
                /\ UNCHANGED lock
           ELSE IF lock.owner # 0
           THEN /\ CrReturn(p, l, FALSE, "nil", s)
                /\ UNCHANGED lock
           ELSE /\ lock' = [owner |-> p, content |-> Join(<<>>)]
                /\ stats' = [stats EXCEPT ![p] = s]
                /\ pc' = [pc EXCEPT ![p] = "cr_uptodate"]
                /\ loc' = [loc EXCEPT ![p].lockSet = TRUE, ![p].mine = TRUE]
                /\ UNCHANGED <<ret, run>>
    /\ UNCHANGED <<manifest, files, tlocks, temps, stack, closed, merged, calls,
                   faults, todo, pubs, mhist>>

\* compactRange: if ok, err := st.UpToDate(); !ok || err != nil
CrUpToDate(p) ==
    /\ pc[p] = "cr_uptodate"
    /\ IF UpToDate(stack[p], manifest)
       THEN /\ pc' = [pc EXCEPT ![p] = "cr_tlock"]
            /\ UNCHANGED loc
       ELSE /\ pc' = [pc EXCEPT ![p] = "cr_defer_ml"]
            /\ loc' = [loc EXCEPT ![p].ok = FALSE, ![p].err = "nil"]
    /\ UNCHANGED <<manifest, lock, files, tlocks, temps, stack, closed, merged, stats,
                   ret, calls, faults, todo, pubs, mhist, run>>

\* compactRange: one turn of the loop that creates the per-table locks;
\* i is first plus the number of locks already taken.
CrTableLock(p) ==
    /\ pc[p] = "cr_tlock"
    /\ LET l == loc[p]
           i == l.first + Len(l.held)
           name == stack[p][i + 1].name
       IN  IF LockPath(name) \in DOMAIN tlocks
           THEN /\ pc' = [pc EXCEPT ![p] = "cr_defer_tl"]
                /\ loc' = [loc EXCEPT ![p].ok = FALSE, ![p].err = "nil",
                                      ![p].backoff = TRUE,
                                      ![p].contended = LockPath(name)]
                /\ UNCHANGED tlocks
           ELSE /\ tlocks' = With(tlocks, LockPath(name), p)
                /\ loc' = [loc EXCEPT ![p].held = Append(@, name)]
                /\ pc' = [pc EXCEPT ![p] =
                            IF i = l.last THEN "cr_unlock" ELSE "cr_tlock"]
    /\ UNCHANGED <<manifest, lock, files, temps, stack, closed, merged, stats, ret,
                   calls, faults, todo, pubs, mhist, run>>

\* compactRange: os.Remove(lockFileName) before the merge
CrUnlock(p) ==
    /\ pc[p] = "cr_unlock"
    /\ IF lock.owner = 0
       THEN /\ pc' = [pc EXCEPT ![p] = "cr_defer_tl"]
            /\ loc' = [loc EXCEPT ![p].ok = FALSE, ![p].err = "NotExist",
                                  ![p].mine = FALSE]
            /\ UNCHANGED lock
       ELSE /\ lock' = NoLock
            /\ pc' = [pc EXCEPT ![p] = "cr_merge"]
            /\ loc' = [loc EXCEPT ![p].lockSet = FALSE, ![p].mine = FALSE]
    /\ UNCHANGED <<manifest, files, tlocks, temps, stack, closed, merged, stats, ret,
                   calls, faults, todo, pubs, mhist, run>>

\* compactRange: st.compactLocked(first, last), which writes the merge of
\* st.stack[first..last] to a temporary file and removes it on an error.
CrMerge(p) ==
    /\ pc[p] = "cr_merge"
    /\ \E out \in IOChoices({"merge"}), sz \in Sizes :
         /\ Spend(out)
         /\ IF out = "ok"
            THEN /\ temps' = [temps EXCEPT ![p] = @ + 1]
                 /\ pc' = [pc EXCEPT ![p] = "cr_relock"]
                 /\ loc' = [loc EXCEPT ![p].tmpFile = TRUE, ![p].tmp =
                        [min |-> stack[p][loc[p].first + 1].min,
                         max |-> stack[p][loc[p].last + 1].max,
                         size |-> sz,
                         wr |-> <<p, loc[p].call, "compact">>,
                         refs |-> writeCompact(stack[p], loc[p].first,
                                               loc[p].last).refs,
                         logs |-> writeCompact(stack[p], loc[p].first,
                                               loc[p].last).logs]]
                 /\ UNCHANGED run
            ELSE /\ pc' = [pc EXCEPT ![p] = "cr_defer_tl"]
                 /\ loc' = [loc EXCEPT ![p].ok = FALSE, ![p].err = "IO",
                                       ![p].fault = out]
                 /\ run' = RunOther
                 /\ UNCHANGED temps
    /\ UNCHANGED <<manifest, lock, files, tlocks, stack, closed, merged, stats, ret,
                   calls, todo, pubs, mhist>>

\* compactRange: lockFileName = st.listFile + ".lock" and the second
\* exclusive create; any error returns (false, err).
CrRelock(p) ==
    /\ pc[p] = "cr_relock"
    /\ IF lock.owner # 0
       THEN /\ pc' = [pc EXCEPT ![p] = "cr_defer_tl"]
            /\ loc' = [loc EXCEPT ![p].lockSet = TRUE, ![p].ok = FALSE,
                                  ![p].err = "Exist",
                                  ![p].contended = "manifest"]
            /\ UNCHANGED lock
       ELSE /\ lock' = [owner |-> p, content |-> Join(<<>>)]
            /\ pc' = [pc EXCEPT ![p] = "cr_rename"]
            /\ loc' = [loc EXCEPT ![p].lockSet = TRUE, ![p].mine = TRUE]
    /\ UNCHANGED <<manifest, files, tlocks, temps, stack, closed, merged, stats, ret,
                   calls, faults, todo, pubs, mhist, run>>

\* compactRange: fn and os.Rename(tmpTable, destTable)
CrRename(p) ==
    /\ pc[p] = "cr_rename"
    /\ LET fn == formatName(stack[p][loc[p].first + 1].min,
                            stack[p][loc[p].last + 1].max) \o ".ref"
       IN  /\ files' = With(files, fn, loc[p].tmp)
           /\ loc' = [loc EXCEPT ![p].dest = fn, ![p].tmpFile = FALSE]
    /\ temps' = [temps EXCEPT ![p] = @ - 1]
    /\ pc' = [pc EXCEPT ![p] = "cr_wlock"]
    /\ UNCHANGED <<manifest, lock, tlocks, stack, closed, merged, stats, ret, calls,
                   faults, todo, pubs, mhist, run>>

\* A names list whose tail starts at last instead of last + 1.
CompactedNamesFromLast(st, first, last, fn) ==
    SubSeq(Names(st), 1, first) \o <<fn>> \o SubSeq(Names(st), last + 1, Len(st))

\* compactRange's new names list: st.stack[0..first), fn, st.stack(last..]
CompactedNames(st, first, last, fn) ==
    SubSeq(Names(st), 1, first) \o <<fn>> \o SubSeq(Names(st), last + 2, Len(st))

\* compactRange: lockFile.Write and lockFile.Close.  A failed Write removes
\* destTable and returns; a failed Close removes destTable and goes on.
CrWriteLock(p) ==
    /\ pc[p] = "cr_wlock"
    /\ \E out \in IOChoices({"write", "close"}) :
         LET names == CompactedNames(stack[p], loc[p].first, loc[p].last,
                                     loc[p].dest)
         IN  /\ Spend(out)
             /\ lock' = IF out = "write" THEN lock ELSE WriteLock(p, names)
             /\ files' = IF out = "ok" THEN files
                         ELSE Without(files, {loc[p].dest})
             /\ run' = IF out = "ok" THEN run ELSE RunOther
             /\ IF out = "write"
                THEN /\ pc' = [pc EXCEPT ![p] = "cr_defer_tl"]
                     /\ loc' = [loc EXCEPT ![p].ok = FALSE, ![p].err = "IO",
                                           ![p].fault = out]
                ELSE /\ pc' = [pc EXCEPT ![p] = "cr_mv"]
                     /\ loc' = [loc EXCEPT ![p].fault =
                                   IF out = "ok" THEN @ ELSE out]
    /\ UNCHANGED <<manifest, tlocks, temps, stack, closed, merged, stats, ret, calls,
                   todo, pubs, mhist>>

\* compactRange: os.Rename(lockFileName, st.listFile); on an error
\* os.Remove(destTable) and return; on success lockFileName = "".
CrMv(p) ==
    /\ pc[p] = "cr_mv"
    /\ \E out \in IOChoices({"rename"}) :
         /\ Spend(out)
         /\ IF out = "ok" /\ lock.owner # 0
            THEN /\ manifest' = lock.content
                 /\ lock' = NoLock
                 /\ mhist' = Append(mhist, readNames(lock.content))
                 /\ pc' = [pc EXCEPT ![p] = "cr_delete"]
                 /\ loc' = [loc EXCEPT ![p].lockSet = FALSE,
                                       ![p].mine = FALSE,
                                       ![p].installed = Len(mhist) + 1]
                 /\ UNCHANGED <<files, run>>
            ELSE /\ files' = Without(files, {loc[p].dest})
                 /\ pc' = [pc EXCEPT ![p] = "cr_defer_tl"]
                 /\ loc' = [loc EXCEPT ![p].ok = FALSE,
                        ![p].err = IF out = "ok" THEN "NotExist" ELSE "IO",
                        ![p].mine = IF out = "ok" THEN FALSE ELSE @,
                        ![p].fault = IF out = "ok" THEN @ ELSE out]
                 /\ run' = IF out = "ok" THEN run ELSE RunOther
                 /\ UNCHANGED <<manifest, lock, mhist>>
    /\ UNCHANGED <<tlocks, temps, stack, closed, merged, stats, ret, calls, todo, pubs>>

\* compactRange: for _, nm := range deleteOnSuccess { os.Remove(nm) }, and
\* then st.reload()
CrDelete(p) ==
    /\ pc[p] = "cr_delete"
    /\ files' = Without(files, Range(loc[p].held))
    /\ pc' = [pc EXCEPT ![p] = "rl_read"]
    /\ loc' = [loc EXCEPT ![p].rlret = "cr"]
    /\ UNCHANGED <<manifest, lock, tlocks, temps, stack, closed, merged, stats, ret,
                   calls, faults, todo, pubs, mhist, run>>

\* A release of every per-table lock in the directory.
subtableLocksOfAll(l) == DOMAIN tlocks

\* subtableLocks: the lock paths this call created
subtableLocks(l) == {LockPath(n) : n \in Range(l.held)}

\* compactRange's deferred func: for _, l := range subtableLocks { os.Remove(l) }
CrDeferTl(p) ==
    /\ pc[p] = "cr_defer_tl"
    /\ tlocks' = Without(tlocks, subtableLocks(loc[p]))
    /\ IF loc[p].lockSet
       THEN /\ pc' = [pc EXCEPT ![p] = "cr_defer_ml"]
            /\ UNCHANGED <<loc, ret, run, stats>>
       ELSE CrReturn(p, loc[p], loc[p].ok, loc[p].err, stats[p])
    /\ UNCHANGED <<manifest, lock, files, temps, stack, closed, merged, calls, faults,
                   todo, pubs, mhist>>

\* compactRange's deferred func: if lockFileName != "" { os.Remove(lockFileName) }
CrDeferMl(p) ==
    /\ pc[p] = "cr_defer_ml"
    /\ lock' = NoLock
    /\ CrReturn(p, loc[p], loc[p].ok, loc[p].err, stats[p])
    /\ UNCHANGED <<manifest, files, tlocks, temps, stack, closed, merged, calls,
                   faults, todo, pubs, mhist>>

\* ------------------------------------------------------- the specification
\* The stack the processes open: empty, or MaxInit tables of one update
\* index each whose sizes halve, so that no two are in one size tier.
InitTable(i, n) ==
    [name |-> formatName(i, i) \o ".ref", min |-> i, max |-> i,
     size |-> Overhead + 2 ^ (n - i), wr |-> <<0, i, "add">>,
     refs |-> PlainRefs(i), logs |-> PlainLogs(i)]

InitStack(n) == [i \in 1..n |-> InitTable(i, n)]

\* Every process has opened the stack st, whose tables are in the directory.
InitFrom(st, td, nf, nc) ==
        /\ manifest = IF st = <<>> THEN <<>> ELSE Join(Names(st))
        /\ lock = NoLock
        /\ files = [nm \in Range(Names(st)) |->
                      LET r == CHOOSE x \in Range(st) : x.name = nm
                      IN  [min |-> r.min, max |-> r.max, size |-> r.size,
                           wr |-> r.wr, refs |-> r.refs, logs |-> r.logs]]
        /\ tlocks = [nm \in {} |-> 0]
        /\ temps = [p \in Procs |-> 0]
        /\ pc = [p \in Procs |-> "idle"]
        /\ stack = [p \in Procs |-> st]
        /\ closed = [p \in Procs |-> {}]
        /\ merged = [p \in Procs |-> st]
        /\ stats = [p \in Procs |-> [attempts |-> 0, failures |-> 0]]
        /\ loc = [p \in Procs |-> LocInit]
        /\ ret = [p \in Procs |-> NoRet]
        /\ calls = nc
        /\ faults = nf
        /\ todo = td
        /\ pubs = <<>>
        /\ mhist = <<Names(st)>>
        /\ run = IF st = <<>> THEN [phase |-> "adds", adds |-> 0, unit |-> TRUE]
                 ELSE RunOther

InitWith(n, td, nf, nc) == InitFrom(InitStack(n), td, nf, nc)

\* The processes ps make any calls; the others make none.
Free(ps) == [p \in Procs |-> IF p \in ps THEN <<AnyCall>> ELSE <<>>]

Init == \E n \in {0, MaxInit} : InitWith(n, Free(Procs), 0, MaxCalls)

InitSingle ==
    \E n \in {0, MaxInit} : InitWith(n, Free({1}), MaxFaults, MaxCallsSingle)

\* One file-system call, or one return, of the call p is in.
Inside(p) ==
    \/ RlRead(p)
    \/ RlOnce(p)
    \/ RlReread(p)
    \/ AddOpen(p)
    \/ AddUpToDate(p)
    \/ AddWrite(p)
    \/ AddRename(p)
    \/ AddWriteLock(p)
    \/ AddMv(p)
    \/ AddDefer1(p)
    \/ AddDefer2(p)
    \/ AutoCompact(p)
    \/ CrOpen(p)
    \/ CrUpToDate(p)
    \/ CrTableLock(p)
    \/ CrUnlock(p)
    \/ CrMerge(p)
    \/ CrRelock(p)
    \/ CrRename(p)
    \/ CrWriteLock(p)
    \/ CrMv(p)
    \/ CrDelete(p)
    \/ CrDeferTl(p)
    \/ CrDeferMl(p)

Step(p) ==
    \/ StartAdd(p)
    \/ StartCompactAll(p)
    \/ \E first, last \in 0..(Len(stack[p]) - 1) : StartCompactRange(p, first, last)
    \/ StartAutoCompact(p)
    \/ StartReload(p)
    \/ Inside(p)

Next == \E p \in Procs : Step(p)

InitWide == InitWith(MaxInitWide, Free(Procs), 0, MaxCallsWide)

\* Two client programs: one adds a table, the other compacts the whole
\* stack and then adds two tables.
Programs == <<<<"Add">>, <<"CompactAll", "Add", "Add">>>>

InitPrograms ==
    InitWith(MaxInit, Programs, 0, Len(Programs[1]) + Len(Programs[2]))

ProgramStep(p) ==
    \/ StartAdd(p)
    \/ StartCompactAll(p)
    \/ Inside(p)

NextPrograms == \E p \in Procs : ProgramStep(p)

\* The records a table may hold: for each reference nothing, a value or a
\* deletion, and a log record of "main" or none.
RefShapes ==
    {S \in SUBSET (Refs \X BOOLEAN) : \A a, b \in S : a[1] = b[1] => a = b}

LogShapes == SUBSET {"main"}

\* A stack of MaxInitRecords tables, installed by as many Adds, with any
\* records.
InitRecords ==
    \E sh \in [1..MaxInitRecords -> RefShapes], lg \in [1..MaxInitRecords -> LogShapes] :
        InitFrom([i \in 1..MaxInitRecords |->
                    [InitTable(i, MaxInitRecords) EXCEPT
                        !.refs = {RefRecord(x[1], i, x[2]) : x \in sh[i]},
                        !.logs = {LogRecord(n, i) : n \in lg[i]}]],
                 Free({1}), 0, MaxCallsRecords)

\* The payload sizes a table may have.
SizeChoices == {1, 1024, 1500, 2048, 4096, 1048576}

\* A stack of up to MaxInitSizes tables, installed by as many Adds, of any
\* sizes.
InitSizes ==
    \E n \in 0..MaxInitSizes :
        \E sz \in [1..n -> SizeChoices] :
            InitFrom([i \in 1..n |->
                        [InitTable(i, n) EXCEPT !.size = Overhead + sz[i]]],
                     Free({1}), 0, MaxCallsSizes)

\* The steps of a compaction.
CompactionStep(p) ==
    \/ CrOpen(p)
    \/ CrUpToDate(p)
    \/ CrTableLock(p)
    \/ CrUnlock(p)
    \/ CrMerge(p)
    \/ CrRelock(p)
    \/ CrRename(p)
    \/ CrWriteLock(p)
    \/ CrMv(p)
    \/ CrDelete(p)
    \/ RlRead(p)
    \/ RlOnce(p)
    \/ CrDeferTl(p)

RecordsStep(p) ==
    \/ StartCompactAll(p)
    \/ \E first, last \in 0..(Len(stack[p]) - 1) : StartCompactRange(p, first, last)
    \/ CompactionStep(p)

NextRecords == \E p \in Procs : RecordsStep(p)

SizesStep(p) ==
    \/ StartAutoCompact(p)
    \/ AutoCompact(p)
    \/ CompactionStep(p)

NextSizes == \E p \in Procs : SizesStep(p)

\* Any number of processes, no file-system failure.
Spec == Init /\ [][Next]_vars

\* The same, from a stack tall enough for two disjoint compactions.
SpecWide == InitWide /\ [][Next]_vars

\* One process, with file-system failures.
SpecSingle == InitSingle /\ [][Next]_vars

\* The two client programs, in every interleaving of their steps.
SpecPrograms == InitPrograms /\ [][NextPrograms]_vars

\* One process compacting a stack of tables with any records.
SpecRecords == InitRecords /\ [][NextRecords]_vars

\* One process calling AutoCompact on a stack of tables of any sizes.
SpecSizes == InitSizes /\ [][NextSizes]_vars

\* ------------------------------------------------------------- the claims
ManifestNames == readNames(manifest)

\* The process whose step this is: every step changes its own pc or locals.
Acts(p) == pc'[p] # pc[p] \/ loc'[p] # loc[p]

\* The top-level call of p returns in this step.
Returns(p) == pc[p] # "idle" /\ pc'[p] = "idle"

\* A table named in the manifest whose file covers the update indices of t.
CoveredInManifest(t) ==
    \E n \in Range(ManifestNames) :
        /\ n \in DOMAIN files
        /\ files[n].min <= t.min
        /\ t.max <= files[n].max

\* C1: no successful Add is lost.  Every table that an Add published by
\* renaming its lock file over the manifest is, in every later state, named
\* in the manifest or covered by a table named in the manifest.
C1_NoAddLost ==
    \A k \in 1..Len(pubs) :
        \/ pubs[k].name \in Range(ManifestNames)
        \/ CoveredInManifest(pubs[k])

\* C2: in every reachable state, every name listed in the manifest names a
\* table file that exists in the directory.
C2_ManifestNamesExist == \A n \in Range(ManifestNames) : n \in DOMAIN files

\* C3: in a single process, a call of Add or compactRange in which the
\* write to the lock file, its close, or its rename over the manifest failed
\* returns with every manifest name naming an existing table file, and
\* reports the failure.
C3_FailedInstallLeavesNoDangling ==
    [][\A p \in Procs :
          (Returns(p) /\ loc[p].fault \in {"write", "close", "rename"})
          => /\ \A n \in Range(readNames(manifest')) : n \in DOMAIN files'
             /\ ret'[p].err # "nil"]_vars

\* C4: manifest lock mutual exclusion.  While a process is between its own
\* exclusive create of the manifest lock and its own release of it, the file
\* at the lock path is the one it created: no other process holds the lock,
\* and no other process has removed or renamed the file.
C4_ManifestLockExclusive == \A p \in Procs : loc[p].mine => lock.owner = p

\* The merge phase of compactRange: per-table locks held, manifest lock
\* released.
InMerge(p) == pc[p] \in {"cr_merge", "cr_relock"}

MergeExclusion ==
    \A p, q \in Procs :
        (p # q /\ InMerge(p) /\ InMerge(q))
        => Range(loc[p].held) \cap Range(loc[q].held) = {}

\* C5: per-table lock exclusion.  No two compactions are in their merge
\* phase with ranges that share a table; no step of a process removes or
\* replaces a per-table lock another process created; the deferred release
\* of a compaction that found a per-table lock taken removes the locks it
\* created itself; and that compaction returns (false, nil).
C5_TableLockExclusion ==
    [][/\ MergeExclusion'
       /\ \A p \in Procs :
            /\ Acts(p) =>
                 \A k \in DOMAIN tlocks :
                    tlocks[k] # p => (k \in DOMAIN tlocks' /\ tlocks'[k] = tlocks[k])
            /\ (pc[p] = "cr_defer_tl" /\ Acts(p)) =>
                 \A k \in subtableLocks(loc[p]) : k \notin DOMAIN tlocks'
            /\ (loc[p].backoff /\ Returns(p)) =>
                 /\ ret'[p].err = "nil"
                 /\ loc[p].ok = FALSE
                 /\ loc[p].op = "compactRange" => ret'[p].ok = FALSE]_vars

\* A compaction found a per-table lock of the other process, while holding
\* one of its own, and is about to release.
C5_Witness ==
    \E p \in Procs :
        /\ pc[p] = "cr_defer_tl"
        /\ loc[p].backoff
        /\ loc[p].held # <<>>
        /\ \E k \in DOMAIN tlocks : tlocks[k] # p

\* Every Reader of a stack whose name is in the manifest and whose file
\* exists shows the file's content.
ReadersShowFiles ==
    \A p \in Procs : \A i \in 1..Len(stack[p]) :
        (stack[p][i].name \in Range(ManifestNames) /\ stack[p][i].name \in DOMAIN files)
        => TableAs(stack[p][i].name, files[stack[p][i].name]) = stack[p][i]

\* C6: table immutability.  A table file's content never changes while the
\* file exists under its final name, and a Reader whose name is in the
\* manifest shows the content of the file of that name.
C6_TablesImmutable ==
    [][/\ \A n \in DOMAIN files : n \in DOMAIN files' => files'[n] = files[n]
       /\ ReadersShowFiles']_vars

\* C7: update indices are monotonic across successful Adds.  Of two
\* published tables the later one's minimum is above the earlier one's
\* maximum, and an Add that returns success leaves NextUpdateIndex above
\* what it was when the Add was called.
C7_UpdateIndexMonotonic ==
    [][/\ \A i, j \in 1..Len(pubs') : i < j => pubs'[i].max < pubs'[j].min
       /\ \A p \in Procs :
            (Returns(p) /\ loc[p].op = "Add" /\ ret'[p].err = "nil")
            => NextUpdateIndex(stack'[p]) > loc[p].next0]_vars

\* C8: every adjacent pair of Readers of a stack satisfies
\* r_i.max < r_{i+1}.min, whatever limits the write callbacks set.
C8_ReadersOrdered ==
    \A p \in Procs : \A i \in 1..(Len(stack[p]) - 1) :
        stack[p][i].max < stack[p][i + 1].min

\* A stack of two Readers, the upper one written by an Add whose callback
\* set limits other than [next, next].
C8_Witness ==
    /\ Len(stack[1]) >= 2
    /\ Last(stack[1]).wr[3] = "add"
    /\ Last(stack[1]).max > Last(stack[1]).min
    /\ Last(stack[1]).min > stack[1][Len(stack[1]) - 1].max + 1

\* C9: when Add, compactRange or CompactAll returns success after having
\* installed a manifest, the names of the stack's Readers are the lines of
\* that manifest or of one installed after it, and the merged view is built
\* over those Readers.
C9_SuccessReflectsManifest ==
    [][\A p \in Procs :
          (/\ Returns(p)
           /\ loc[p].op \in {"Add", "CompactAll", "compactRange"}
           /\ ret'[p].ok /\ ret'[p].err = "nil"
           /\ loc[p].installed > 0)
          => /\ \E v \in loc[p].installed..Len(mhist') :
                   Names(stack'[p]) = mhist'[v]
             /\ merged'[p] = stack'[p]]_vars

\* The manifest names exactly one table, with limits [lo, hi].
OneTable(lo, hi) ==
    /\ Len(ManifestNames) = 1
    /\ ManifestNames[1] \in DOMAIN files
    /\ files[ManifestNames[1]].min = lo
    /\ files[ManifestNames[1]].max = hi

\* C10 as stated: in a single process, with no contention and no I/O
\* failure, N >= 1 successful Adds followed by CompactAll leave a manifest
\* of exactly one table whose limits are [1, N].
C10_CompactAllCoversAdds ==
    (run.phase = "done" /\ run.adds >= 1) => OneTable(1, run.adds)

\* C10 as amended: the same, when every Add's callback set the limits of its
\* table to [NextUpdateIndex, NextUpdateIndex].
C10_CompactAllCoversUnitAdds ==
    (run.phase = "done" /\ run.adds >= 1 /\ run.unit) => OneTable(1, run.adds)

\* Three Adds of one update index each, then CompactAll, have returned.
C10_Witness == run.phase = "done" /\ run.adds = 3 /\ run.unit

\* C11: a successful compactRange(first, last) with first < last preserves
\* the merged projection of the whole stack: when it returns, the live value
\* of every reference, seen through the Readers and through the merged view,
\* is what it was when the call was made, for first = 0 and for first > 0.
C11_CompactionPreservesProjection ==
    [][\A p \in Procs :
          (/\ Returns(p)
           /\ loc[p].op \in {"compactRange", "CompactAll"}
           /\ ret'[p].ok /\ ret'[p].err = "nil"
           /\ loc[p].installed > 0)
          => /\ Projection(stack'[p]) = loc[p].pre.view
             /\ Projection(merged'[p]) = loc[p].pre.view]_vars

\* compactRange(1, 2) has returned success on a stack whose bottom table
\* sets a reference that the compacted table above it deletes.
C11_Witness ==
    /\ ret[1] = [op |-> "compactRange", ok |-> TRUE, err |-> "nil"]
    /\ Len(stack[1]) = 2
    /\ stack[1][2].max > stack[1][2].min
    /\ \E r \in stack[1][2].refs, q \in stack[1][1].refs :
          r.del /\ ~q.del /\ q.name = r.name

\* C12: the table compactRange(first, last) writes holds no deletion record
\* when first = 0 and every deletion record of the merged view over
\* readers[first..last] when first > 0; it holds every other reference
\* record and every log record of that view in both cases.
C12_TombstonesInCompaction ==
    [][\A p \in Procs :
          (pc[p] = "cr_merge" /\ pc'[p] = "cr_relock")
          => LET sub == SubSeq(stack[p], loc[p].first + 1, loc[p].last + 1)
                 out == loc'[p].tmp
             IN  /\ loc[p].first = 0 => \A r \in out.refs : ~r.del
                 /\ loc[p].first > 0 =>
                       \A r \in MergedRefs(sub) : r.del => r \in out.refs
                 /\ \A r \in MergedRefs(sub) : ~r.del => r \in out.refs
                 /\ out.refs \subseteq MergedRefs(sub)
                 /\ out.logs = MergedLogs(sub)]_vars

\* A merge with first > 0 has written a deletion record, and one with
\* first = 0 has met one.
C12_Witness ==
    /\ pc[1] = "cr_relock"
    /\ \/ loc[1].first > 0 /\ \E r \in loc[1].tmp.refs : r.del
       \/ /\ loc[1].first = 0
          /\ \E r \in MergedRefs(SubSeq(stack[1], 1, loc[1].last + 1)) : r.del
    /\ loc[1].tmp.logs # {}

\* The top-level call of p returns an error or a back-off result in this step.
ReturnsFailure(p) ==
    Returns(p) /\ (ret'[p].err # "nil" \/ ~ret'[p].ok)

\* C13: when Add or compactRange returns an error or a back-off result, no
\* temporary table file that the call created is left in the directory, the
\* manifest lock file is not one the call created, and no per-table lock of
\* the calling process is left.
C13_FailureLeavesNoLockNoTemp ==
    [][\A p \in Procs :
          (ReturnsFailure(p) /\ loc[p].op \in {"Add", "compactRange"})
          => /\ ~loc[p].tmpFile
             /\ lock'.owner # p
             /\ \A k \in DOMAIN tlocks' : tlocks'[k] # p]_vars

\* C14: when the write callback passed to Add returns an error, every later
\* step of that Add is one of add's deferred removals, AutoCompact is not
\* run, and Add returns that error with the manifest and the final-named
\* table files as they were when the call was made and with no manifest lock
\* file.
C14_CallbackErrorFrame ==
    [][\A p \in Procs :
          (loc[p].op = "Add" /\ loc[p].err = "Callback" /\ Acts(p))
          => \/ /\ pc'[p] = "add_defer2"
                /\ loc'[p].err = "Callback"
             \/ /\ Returns(p)
                /\ ret'[p] = [op |-> "Add", ok |-> FALSE, err |-> "Callback"]
                /\ manifest' = loc[p].pre.manifest
                /\ files' = loc[p].pre.files
                /\ lock' = NoLock]_vars

\* An Add on a stack of two tables has returned its callback's error.
C14_Witness ==
    /\ ret[1] = [op |-> "Add", ok |-> FALSE, err |-> "Callback"]
    /\ Len(ManifestNames) = 2
    /\ pc[1] = "idle"

\* What the caller of p's call gets when compactRange returns (false, nil).
BacksOff(p) ==
    /\ Returns(p)
    /\ ret'[p].err = "nil"
    /\ loc[p].op = "compactRange" => ~ret'[p].ok

\* C15: a compactRange that finds the manifest lock held at its first
\* acquisition returns (false, nil) in that step and changes nothing; one
\* that found the manifest lock held at its re-acquisition or a per-table
\* lock held changes neither the manifest nor a final-named table file in
\* any later step, leaves the lock it found in place, and returns
\* (false, nil).
C15_ContendedLockBacksOff ==
    [][\A p \in Procs :
          Acts(p) =>
            /\ (pc[p] = "cr_open" /\ loc[p].first < loc[p].last /\ lock.owner # 0)
               => BacksOff(p) /\ UNCHANGED <<manifest, files, lock, tlocks>>
            /\ loc[p].contended # "none"
               => /\ UNCHANGED <<manifest, files>>
                  /\ Returns(p) => BacksOff(p)
                  /\ loc[p].contended = "manifest" => lock' = lock
                  /\ (loc[p].contended # "manifest" /\ loc[p].contended \in DOMAIN tlocks)
                     => /\ loc[p].contended \in DOMAIN tlocks'
                        /\ tlocks'[loc[p].contended] = tlocks[loc[p].contended]]_vars

\* C16: an Add that finds the manifest lock file existing, or the manifest
\* names different from its Readers' names, changes neither the manifest nor
\* a table file in any of its steps and returns LockFailure; in the first case
\* it leaves the lock file as it is, and in the second case it returns with
\* Readers whose names are the manifest's as read during its reload, so that
\* a retry with no writer in between is up to date.
C16_AddLockFailure ==
    [][\A p \in Procs :
          (Acts(p) /\ loc[p].op = "Add") =>
            /\ (pc[p] = "add_open" /\ lock.owner # 0)
               => /\ UNCHANGED <<manifest, files, lock>>
                  /\ loc'[p].lockFailure = "held"
            /\ (pc[p] = "add_uptodate" /\ ~UpToDate(stack[p], manifest))
               => /\ UNCHANGED <<manifest, files>>
                  /\ loc'[p].lockFailure = "stale"
            /\ loc[p].lockFailure \in {"held", "stale"}
               => /\ UNCHANGED <<manifest, files>>
                  /\ loc[p].lockFailure = "held" => lock' = lock
                  /\ Returns(p)
                     => /\ ret'[p] = [op |-> "Add", ok |-> FALSE, err |-> "LockFailure"]
                        /\ loc[p].lockFailure = "stale"
                           => Names(stack'[p]) \in {loc[p].names, readNames(manifest)}]_vars

\* C17: the Add that installs its manifest appends exactly one line to the
\* lines the manifest had, and that line is formatName(min, max) + ".ref"
\* for the range [min, max] its callback's Writer covered; on an empty stack
\* with a callback writing at index 1 the line is
\* 000000000001-000000000001.ref, and NextUpdateIndex is 2 after the reload.
C17_AddAppendsWrittenRange ==
    [][\A p \in Procs :
          /\ (pc[p] = "add_mv" /\ pc'[p] = "rl_read")
             => /\ readNames(manifest') =
                      Append(readNames(manifest),
                             formatName(loc[p].tmp.min, loc[p].tmp.max) \o ".ref")
                /\ (readNames(manifest) = <<>> /\ loc[p].tmp.min = 1 /\ loc[p].tmp.max = 1)
                   => manifest' = <<"000000000001-000000000001.ref">>
          /\ (pc[p] = "rl_once" /\ loc[p].rlret = "add" /\ pc'[p] = "add_defer1"
              /\ loc'[p].err = "nil"
              /\ Names(stack'[p]) = <<"000000000001-000000000001.ref">>
              /\ stack'[p][1].max = 1)
             => NextUpdateIndex(stack'[p]) = 2]_vars

\* C18: a reloadOnce that fails to open a table leaves st.stack as it is and
\* closes none of the Readers in it, the ones it had taken for reuse before
\* the failing open included.
C18_FailedReloadClosesOnlyFresh ==
    [][\A p \in Procs :
          (pc[p] = "rl_once" /\ pc'[p] = "rl_reread")
          => /\ stack'[p] = stack[p]
             /\ closed'[p] = closed[p]]_vars

\* reload hands err to its caller in this step: add, compactRange, or the
\* client that called reload (Add drops the result of the reload it makes
\* after a LockFailure).
ReloadGives(p, err) ==
    CASE loc[p].rlret = "add" -> pc'[p] = "add_defer1" /\ loc'[p].err = err
      [] loc[p].rlret = "cr" -> pc'[p] = "cr_defer_tl" /\ loc'[p].err = err
      [] loc[p].rlret = "Add_fail" -> Returns(p)
      [] OTHER -> Returns(p) /\ ret'[p].err = err

\* C19: reload returns success only from an attempt that succeeded, with
\* Readers named as the name list it read for that attempt; after an attempt
\* that failed with file-not-found it either reads the names again for a
\* retry or returns file-not-found, which it does when the re-read names are
\* unchanged and when the deadline has passed.
C19_ReloadSuccessNeedsAttempt ==
    [][\A p \in Procs :
          /\ (pc[p] = "rl_once" /\ pc'[p] # "rl_reread" /\ Acts(p))
             => /\ ReloadGives(p, "nil")
                /\ Names(stack'[p]) = loc[p].names
          /\ (pc[p] = "rl_reread" /\ Acts(p))
             => \/ /\ pc'[p] = "rl_read"
                   /\ readNames(manifest) # loc[p].names
                \/ ReloadGives(p, "NotExist")]_vars

\* floor(log2(sz)) of a non-zero size.
FloorLog2(sz) == CHOOSE l \in 0..MaxLog : 2 ^ l <= sz /\ sz < 2 ^ (l + 1)

RECURSIVE SumOf(_, _, _)
SumOf(sizes, a, b) == IF a > b THEN 0 ELSE sizes[a] + SumOf(sizes, a + 1, b)

\* The maximal runs <<a, b>> (1-based, inclusive) of equal floor-log2 sizes.
MaximalRuns(sizes) ==
    {r \in (1..Len(sizes)) \X (1..Len(sizes)) :
        /\ r[1] <= r[2]
        /\ \A k \in r[1]..r[2] : FloorLog2(sizes[k]) = FloorLog2(sizes[r[1]])
        /\ r[1] = 1 \/ FloorLog2(sizes[r[1] - 1]) # FloorLog2(sizes[r[1]])
        /\ r[2] = Len(sizes) \/ FloorLog2(sizes[r[2] + 1]) # FloorLog2(sizes[r[2]])}

LongRuns(sizes) == {r \in MaximalRuns(sizes) : r[2] - r[1] + 1 >= 2}

\* The first of the runs of length >= 2 with the smallest log.
ChosenRun(sizes) ==
    CHOOSE r \in LongRuns(sizes) :
        \A q \in LongRuns(sizes) :
            \/ FloorLog2(sizes[r[1]]) < FloorLog2(sizes[q[1]])
            \/ FloorLog2(sizes[r[1]]) = FloorLog2(sizes[q[1]]) /\ r[1] <= q[1]

\* The leftmost start the run <<a, b>> reaches when it takes its left
\* neighbour as long as log2 of its bytes is at least the neighbour's log2.
ExtendedStart(sizes, r) ==
    CHOOSE t \in 1..r[1] :
        /\ \A k \in (t + 1)..r[1] :
              FloorLog2(SumOf(sizes, k, r[2])) >= FloorLog2(sizes[k - 1])
        /\ t = 1 \/ FloorLog2(SumOf(sizes, t, r[2])) < FloorLog2(sizes[t - 1])

\* C20: on every sequence of non-zero table sizes AutoCompact's
\* suggestCompactionSegment gives none when no maximal run of equal floor-log2
\* sizes has length >= 2, and otherwise the first run of length >= 2 with the
\* smallest log, extended to the left while log2 of its bytes is at least
\* log2 of the left neighbour's size; then 0 <= start, end <= n and
\* end - start >= 2. Sizes [1024, 1024, 1024, 1M, 1M] give [0, 3),
\* [1M, 1024, 1024] gives [1, 3) and [1M] gives none.
C20_SuggestedSegment ==
    [][\A p \in Procs :
          (pc[p] = "ac_begin" /\ Acts(p))
          => LET sizes == tableSizesForCompaction(stack[p])
                 seg == suggestCompactionSegment(sizes)
             IN  /\ IF LongRuns(sizes) = {}
                    THEN seg = NoSegment /\ Returns(p)
                    ELSE /\ seg # NoSegment
                         /\ seg.start = ExtendedStart(sizes, ChosenRun(sizes)) - 1
                         /\ seg.end = ChosenRun(sizes)[2]
                         /\ 0 <= seg.start /\ seg.end <= Len(sizes)
                         /\ seg.end - seg.start >= 2
                         /\ pc'[p] = "cr_open"
                         /\ loc'[p].first = seg.start
                         /\ loc'[p].last = seg.end - 1
                 /\ sizes = <<1024, 1024, 1024, 1048576, 1048576>>
                    => seg.start = 0 /\ seg.end = 3
                 /\ sizes = <<1048576, 1024, 1024>>
                    => seg.start = 1 /\ seg.end = 3
                 /\ sizes = <<1048576>> => seg = NoSegment]_vars

\* AutoCompact has suggested a segment that is a run of equal logs extended
\* to the left by a table of another log, with a table left out before it.
C20_Witness ==
    /\ pc[1] = "cr_open"
    /\ loc[1].viaStats
    /\ LET sizes == tableSizesForCompaction(stack[1])
       IN  /\ LongRuns(sizes) # {}
           /\ loc[1].first + 1 < ChosenRun(sizes)[1]
           /\ loc[1].first > 0

\* The compactRange of p returns in this step, backing off on a lock or with
\* an error.
CrFails(p) ==
    \/ pc[p] = "cr_open" /\ loc[p].first < loc[p].last /\ lock.owner # 0
    \/ /\ pc[p] \in {"cr_defer_tl", "cr_defer_ml"}
       /\ Returns(p)
       /\ ~loc[p].ok \/ loc[p].err # "nil"

\* C21: a compactRange with first < last increments Stats.Attempts once, when
\* it starts, and no other step changes it; one with first >= last returns
\* (true, nil) and changes neither the Stats nor the manifest; a compactRange
\* reached through AutoCompact or CompactAll that backs off on a lock or
\* returns an error increments Stats.Failures once, and no other step changes
\* it; Failures never exceeds Attempts.
C21_CompactionStats ==
    [][\A p \in Procs :
          Acts(p) =>
            /\ stats'[p].attempts =
                  IF pc[p] = "cr_open" /\ loc[p].first < loc[p].last
                  THEN stats[p].attempts + 1 ELSE stats[p].attempts
            /\ (pc[p] = "cr_open" /\ loc[p].first >= loc[p].last)
               => /\ Returns(p)
                  /\ ret'[p].ok /\ ret'[p].err = "nil"
                  /\ UNCHANGED <<stats, manifest>>
            /\ (loc[p].viaStats \/ loc[p].op = "CompactAll")
               => stats'[p].failures =
                     IF CrFails(p) THEN stats[p].failures + 1 ELSE stats[p].failures
            /\ stats'[p].failures <= stats'[p].attempts]_vars

====
